---- MODULE Spec2Model ----
(***************************************************************************)
(* Order lifecycle and payment reconciliation of GilbertTgBot:             *)
(*   pay              (CilbertClubBot.py) creates a payment session and    *)
(*                    stores the order;                                     *)
(*   process_payment  (CilbertClubBot.py) handles the gateway's webhook;   *)
(*   database/queries.py is the order store.                               *)
(* Every await of a handler is one step, so handlers interleave exactly    *)
(* where the asyncio event loop can switch between them.                    *)
(***************************************************************************)
EXTENDS Integers, Sequences, FiniteSets, TLC

\* ------------------------------------------------------------------ bounds
MaxOrderId == 2
MaxPaymentId == 2
MaxAmount == 2
MaxTgId == 2
MaxHooks == 2
MaxRequests == 3
MaxFaults == 1
MaxConf == 2
MaxCode == 2
MaxListed == 2
MaxMessages == 2
MaxCartConf == 1
MaxLect == 3
MaxCartLect == 2
MaxPrice == 2

OrderIds == 1..MaxOrderId
PaymentIds == 1..MaxPaymentId
Amounts == 1..MaxAmount
TgIds == 1..MaxTgId
Hooks == 1..MaxHooks

\* Python's None, where the value is otherwise an integer.
None == -1

\* models.py: Status = Literal["confirmed", "canceled", "new"]
Status == {"confirmed", "canceled", "new"}

\* A row of the table "order" (the columns the handlers read or write).
Order == [tg_id : TgIds, order_id : OrderIds, amount : Amounts,
          payment_id : PaymentIds \cup {None}, status : Status]

\* ------------------------------------------------------------------- state
VARIABLES
    orders,     \* the rows of the table "order"
    hook,       \* hook[h]: the locals and position of one process_payment run
    payp,       \* the locals and position of the pay handler
    issued,     \* PaymentIds the gateway has assigned in Init responses
    requests,   \* number of requests (pay callbacks, webhooks) taken so far
    faults,     \* number of failures of the store (OperationalError) and of
                \* Telegram (send_message raising) so far
    api,        \* one TinkoffAcquiringAPIClient and the call it is serving
    promo,      \* promocodes.json and the runs of the promocode handler
    session     \* the FSM data of one user (the cart) and the catalog

vars == <<orders, hook, payp, issued, requests, faults, api, promo, session>>

\* ------------------------------------------------------- the order store
\* select(Order).where(Order.order_id == order_id)
RowsByOrderId(S, order_id) == {r \in S : r.order_id = order_id}

\* select(...).where(Order.payment_id == payment_id).where(Order.amount == amount)
RowsByPaymentAndAmount(S, payment_id, amount) ==
    {r \in S : r.payment_id = payment_id /\ r.amount = amount}

TheRow(rows) == CHOOSE r \in rows : TRUE

\* get_amount without a storage error: the amount, or "raise" (ValueError)
\* when there is no row or the amount is falsy.
get_amount(S, order_id) ==
    LET rows == RowsByOrderId(S, order_id)
        amount == IF rows = {} THEN None ELSE TheRow(rows).amount
    IN  IF amount = None \/ amount = 0
        THEN [raise |-> TRUE, value |-> None]
        ELSE [raise |-> FALSE, value |-> amount]

\* get_user_tg_id without a storage error: scalar_one_or_none raises
\* MultipleResultsFound on several rows, gives None on no row.
get_user_tg_id(S, payment_id, amount) ==
    LET rows == RowsByPaymentAndAmount(S, payment_id, amount)
    IN  IF Cardinality(rows) > 1 THEN [raise |-> TRUE, value |-> None]
        ELSE IF rows = {} THEN [raise |-> FALSE, value |-> None]
        ELSE [raise |-> FALSE, value |-> TheRow(rows).tg_id]

\* check_amount_and_payment_id without a storage error: one_or_none raises on
\* several rows; False on no row; the found row equals the arguments.
check_amount_and_payment_id(S, payment_id, amount) ==
    LET rows == RowsByPaymentAndAmount(S, payment_id, amount)
    IN  IF Cardinality(rows) > 1 THEN [raise |-> TRUE, value |-> "None"]
        ELSE IF rows = {} THEN [raise |-> FALSE, value |-> "False"]
        ELSE IF TheRow(rows).payment_id # payment_id \/ TheRow(rows).amount # amount
             THEN [raise |-> FALSE, value |-> "False"]
             ELSE [raise |-> FALSE, value |-> "True"]

\* CommitUpdate with canceled orders removed from the table instead of
\* being kept with their new status.
CommitUpdateDeleteCanceled(S, loaded, status, payment_id) ==
    IF status = "canceled"
    THEN {r \in S : r.order_id # loaded.order_id}
    ELSE {IF r.order_id = loaded.order_id
             THEN [r EXCEPT !.status = IF status # loaded.status THEN status ELSE @,
                            !.payment_id = IF payment_id # loaded.payment_id
                                              THEN payment_id ELSE @]
             ELSE r : r \in S}

\* CommitUpdate with an UPDATE that has no WHERE clause: every row gets the
\* status and the payment_id.
CommitUpdateNoWhere(S, loaded, status, payment_id) ==
    {[r EXCEPT !.status = status, !.payment_id = payment_id] : r \in S}

\* The UPDATE that session.commit() flushes in update_payment_data: the
\* unit of work writes the columns whose value differs from the loaded row,
\* to the row with the loaded primary key.
CommitUpdate(S, loaded, status, payment_id) ==
    {IF r.order_id = loaded.order_id
        THEN [r EXCEPT !.status = IF status # loaded.status THEN status ELSE @,
                       !.payment_id = IF payment_id # loaded.payment_id
                                         THEN payment_id ELSE @]
        ELSE r : r \in S}

\* ----------------------------------------------------------------- inputs
\* The webhook body {Amount, OrderId, PaymentId, Status, Success}.
Payloads == [Amount : Amounts, OrderId : OrderIds, PaymentId : PaymentIds,
             Status : {"CONFIRMED", "REJECTED", "AUTHORIZED"}, Success : BOOLEAN]

\* A body whose Amount is missing: int(None) raises.
MalformedPayload == [Amount |-> None, OrderId |-> 1, PaymentId |-> 1,
                     Status |-> "CONFIRMED", Success |-> TRUE]

NoOrder == [tg_id |-> None, order_id |-> None, amount |-> None,
            payment_id |-> None, status |-> "none"]

\* The locals of process_payment, and what it has done so far:
\*   result   the value of check_amount_and_payment_id, or how the try block
\*            of lines 594-614 ended without one ("transport": send_request
\*            returned None; "api_error": it raised; "raise": the check raised);
\*   order    the row update_payment_data has loaded;
\*   sent     the message this run has sent to the purchaser;
\*   changed  whether this run's UPDATE changed the status of a row;
\*   outcome  "OK" for the 200 response, "exception" when the handler raised.
IdleHook == [pc |-> "idle", data |-> MalformedPayload, user_id |-> None,
             result |-> "unset", order |-> NoOrder, sent |-> "none",
             changed |-> FALSE, outcome |-> "none"]

IdlePay == [pc |-> "idle", tg_id |-> None, amount |-> None, OrderId |-> None,
            init |-> "none", payment_id |-> None, stored |-> FALSE,
            sent |-> "none", outcome |-> "none"]

\* ------------------------------------------------------ the gateway client
\* The keys of a request payload, in the order sorted() gives them
\* (generate_token, line 108).
KeyOrder == <<"Amount", "DATA", "Password", "PaymentId", "Receipt", "Shops",
              "TerminalKey", "Token">>

Keys == {KeyOrder[i] : i \in DOMAIN KeyOrder}

\* str(value) of a parameter, as a sequence of characters.
Values == {<<1>>, <<2, 1>>}

\* Marks a key that a dict of parameters does not have.
Absent == <<None>>

\* A dict of parameters.
ParamSets == [Keys -> Values \cup {Absent}]

NoParams == [k \in Keys |-> Absent]

\* generate_token, line 100.
ignore_keys == {"Shops", "Receipt", "DATA"}

\* ''.join(str(value) for _, value in sorted_params.items()), from key i on.
RECURSIVE token_str(_, _)
token_str(sorted_params, i) ==
    IF i > Len(KeyOrder) THEN <<>>
    ELSE (IF sorted_params[KeyOrder[i]] = Absent THEN <<>>
          ELSE sorted_params[KeyOrder[i]]) \o token_str(sorted_params, i + 1)

\* The value generate_token returns (lines 100-110); SHA-256 is taken as
\* injective, so the token is the hashed string itself.
generate_token(params, secret) ==
    LET _params == [k \in Keys |->
                       IF k = "Password" THEN secret
                       ELSE IF k \in ignore_keys THEN Absent
                       ELSE params[k]]
    IN  token_str(_params, 1)

\* The caller's dict after generate_token has returned (line 106).
params_after_generate_token(params, secret) ==
    [params EXCEPT !["Password"] = secret]

\* What happens to the POST of send_request (lines 64-96).
Events == {"ConnectError", "ConnectTimeout", "ReadTimeout", "JSONDecodeError",
           "Failure", "Success"}

\* What send_request gives its caller for each of them: None is returned on
\* ConnectError, ConnectTimeout and JSONDecodeError; another httpx error
\* leaves the function as it is; status_code != 200 or Success false raises
\* TinkoffAPIException; otherwise the response data is returned.
send_request_outcome(event) ==
    CASE event \in {"ConnectError", "ConnectTimeout", "JSONDecodeError"} -> "None"
      [] event = "ReadTimeout" -> "raise httpx.ReadTimeout"
      [] event = "Failure" -> "raise TinkoffAPIException"
      [] OTHER -> "response_data"

\* The payloads init_payment (lines 114-146) builds, and the payloads
\* get_payment_state, confirm_payment and cancel_payment (lines 148-158)
\* build.
InitPayloads ==
    {[NoParams EXCEPT !["Amount"] = a, !["Receipt"] = r, !["DATA"] = d] :
        a \in Values, r \in Values \cup {Absent}, d \in Values \cup {Absent}}

GetStatePayloads == {[NoParams EXCEPT !["PaymentId"] = v] : v \in Values}

\* No client has been constructed.
NoClient == [pc |-> "idle", secret |-> <<>>, terminal_key |-> <<>>,
             endpoint |-> "none", params |-> NoParams, token |-> <<>>,
             after |-> NoParams, posted |-> NoParams, event |-> "none",
             outcome |-> "none"]

\* ------------------------------------------------------------- promo codes
Confs == 1..MaxConf
Codes == 1..MaxCode
Messages == 1..MaxMessages

\* The lists promocodes.json can hold for one conference.
Lists == UNION {[1..k -> Codes] : k \in 0..MaxListed}

\* list.remove(x): the list without the first occurrence of x.
RECURSIVE Remove(_, _)
Remove(list, x) ==
    IF list = <<>> THEN <<>>
    ELSE IF Head(list) = x THEN Tail(list)
    ELSE <<Head(list)>> \o Remove(Tail(list), x)

\* x in list
In(x, list) == \E i \in DOMAIN list : list[i] = x

IdleMessage == [pc |-> "idle", num_conf |-> None, text |-> None,
                result |-> "none"]

\* file is promocodes.json, listed what it held at the start.
NoPromo == [file |-> [n \in Confs |-> <<>>], listed |-> [n \in Confs |-> <<>>],
            msg |-> [m \in Messages |-> IdleMessage]]

\* ---------------------------------------------------------------- the cart
\* The conferences of the catalog; conference '0' is the merchandise.
CartConfs == 0..MaxCartConf
Lects == 1..MaxLect
Prices == 1..MaxPrice

\* cf.confs[num_conf]: the prices lect[3] of its lectures, by lecture number,
\* and the price of the whole conference.
CatalogEntries(k) == [lectures : UNION {[1..j -> Prices] : j \in 1..k},
                      price : Prices]

Catalogs == [CartConfs -> CatalogEntries(MaxLect)]

\* The catalogs of the cart sessions: conferences of up to MaxCartLect
\* lectures.
CartCatalogs == [CartConfs -> CatalogEntries(MaxCartLect)]

\* basket_list is a set of pairs <<num_conf, num_lect>>: the lectures under
\* each conference key. No handler leaves a conference key with no lecture.
\* NoBasket is basket_list = None.
NoBasket == {<<None, None>>}

\* The keys of basket_list.
BasketConfs(basket_list) == {item[1] : item \in basket_list}

\* basket_list[num_conf]
BasketLects(basket_list, num_conf) ==
    {item[2] : item \in {x \in basket_list : x[1] = num_conf}}

\* callback data 'lect_all'
AllLectures == 0

\* summation, lines 391-393: the prices of the lectures of b_conf.
RECURSIVE lect_sum(_, _)
lect_sum(lectures, b_conf) ==
    IF b_conf = {} THEN 0
    ELSE LET num_lect == CHOOSE x \in b_conf : TRUE
         IN  lectures[num_lect] + lect_sum(lectures, b_conf \ {num_lect})

\* summation_loop without the test of line 388: the conference price is
\* never applied.
RECURSIVE summation_loop_no_discount(_, _, _)
summation_loop_no_discount(basket_list, confs, todo) ==
    IF todo = {} THEN <<0, 0>>
    ELSE LET num_conf == CHOOSE x \in todo : TRUE
             conf == confs[num_conf].lectures
             b_conf == BasketLects(basket_list, num_conf)
             rest == summation_loop_no_discount(basket_list, confs,
                                                todo \ {num_conf})
         IN  <<lect_sum(conf, b_conf) + rest[1],
               Cardinality(b_conf) + rest[2]>>

\* summation, lines 382-393: the loop over the conferences of the basket;
\* todo are the keys not yet visited. The result is <<sum_order,
\* count_order>>.
RECURSIVE summation_loop(_, _, _)
summation_loop(basket_list, confs, todo) ==
    IF todo = {} THEN <<0, 0>>
    ELSE LET num_conf == CHOOSE x \in todo : TRUE
             conf == confs[num_conf].lectures
             b_conf == BasketLects(basket_list, num_conf)
             rest == summation_loop(basket_list, confs, todo \ {num_conf})
         IN  <<(IF Cardinality(b_conf) = Len(conf)
                THEN confs[num_conf].price
                ELSE lect_sum(conf, b_conf)) + rest[1],
               Cardinality(b_conf) + rest[2]>>

\* summation (lines 376-395): what it returns and what it writes to the
\* session.
summation(basket_list, confs) ==
    [order |-> summation_loop(basket_list, confs, BasketConfs(basket_list)),
     shipping_address |-> 0 \in BasketConfs(basket_list)]

\* The session data the cart handlers use, for the user with Telegram id
\* tg_id; order is what summation returned in the last handler, <<>> when
\* that handler did not call it.
NoSession == [tg_id |-> 1, confs |-> <<>>, basket_list |-> NoBasket,
              basket_sum |-> None,
              shipping_address |-> None, num_conf |-> None,
              promo_message |-> FALSE, order |-> <<>>]

\* A failure of the store or of Telegram happens in this step.
Fault == faults < MaxFaults /\ faults' = faults + 1

NoFault == faults' = faults

StatusOf(S, order_id) ==
    IF RowsByOrderId(S, order_id) = {} THEN "none"
    ELSE TheRow(RowsByOrderId(S, order_id)).status

Init ==
    /\ orders = {}
    /\ hook = [h \in Hooks |-> IdleHook]
    /\ payp = IdlePay
    /\ issued = {}
    /\ requests = 0
    /\ faults = 0
    /\ api = NoClient
    /\ promo = NoPromo
    /\ session = NoSession

\* ------------------------------------------------------------------- pay
\* pay, lines 516-545: read the amount from the session state, draw the
\* OrderId, and start the Init call.
PayStart ==
    /\ payp.pc \in {"idle", "done"}
    /\ requests < MaxRequests
    /\ \E tg \in TgIds, amount \in Amounts, oid \in OrderIds :
         payp' = [IdlePay EXCEPT !.pc = "init", !.tg_id = tg,
                                 !.amount = amount, !.OrderId = oid]
    /\ requests' = requests + 1
    /\ UNCHANGED <<orders, hook, issued, faults, api, promo, session>>

\* PayInit with the test of PaymentURL (line 550) left out: every response
\* that send_request returns goes on to init_new_payment.
PayInitNoUrlTest ==
    /\ payp.pc = "init"
    /\ \/ /\ payp' = [payp EXCEPT !.pc = "done", !.init = "None",
                                  !.outcome = "exception"]
          /\ UNCHANGED issued
       \/ /\ payp' = [payp EXCEPT !.pc = "done", !.init = "exception",
                                  !.outcome = "returned"]
          /\ UNCHANGED issued
       \/ /\ payp' = [payp EXCEPT !.pc = "init_new_payment", !.init = "no_url"]
          /\ UNCHANGED issued
       \/ /\ \E pid \in PaymentIds \ issued :
               /\ payp' = [payp EXCEPT !.pc = "init_new_payment", !.init = "ok",
                                       !.payment_id = pid]
               /\ issued' = issued \cup {pid}
    /\ UNCHANGED <<orders, hook, requests, faults, api, promo, session>>

\* The Init call returns (send_request, lines 54-96) and pay branches on it
\* (lines 546-566):
\*   "None"       ConnectError, ConnectTimeout or a non-JSON body: send_request
\*                returns None and response.get raises AttributeError in pay;
\*   "exception"  TinkoffAPIException (Success false) or another httpx error:
\*                caught, logged, pay returns;
\*   "no_url"     a successful response without PaymentURL: the alert is shown;
\*   "ok"         PaymentURL and a PaymentId the gateway has not used before.
PayInit ==
    /\ payp.pc = "init"
    /\ \/ /\ payp' = [payp EXCEPT !.pc = "done", !.init = "None",
                                  !.outcome = "exception"]
          /\ UNCHANGED issued
       \/ /\ payp' = [payp EXCEPT !.pc = "done", !.init = "exception",
                                  !.outcome = "returned"]
          /\ UNCHANGED issued
       \/ /\ payp' = [payp EXCEPT !.pc = "done", !.init = "no_url",
                                  !.sent = "pay_error", !.outcome = "returned"]
          /\ UNCHANGED issued
       \/ /\ \E pid \in PaymentIds \ issued :
               /\ payp' = [payp EXCEPT !.pc = "init_new_payment", !.init = "ok",
                                       !.payment_id = pid]
               /\ issued' = issued \cup {pid}
    /\ UNCHANGED <<orders, hook, requests, faults, api, promo, session>>

\* PayStore on a table whose order_id is not a primary key: the INSERT
\* always succeeds.
PayStoreNoPrimaryKey ==
    /\ payp.pc = "init_new_payment"
    /\ \/ /\ Fault
          /\ payp' = [payp EXCEPT !.pc = "send_link"]
          /\ UNCHANGED orders
       \/ /\ NoFault
          /\ orders' = orders \cup
                {[tg_id |-> payp.tg_id, order_id |-> payp.OrderId,
                  amount |-> payp.amount, payment_id |-> payp.payment_id,
                  status |-> "new"]}
          /\ payp' = [payp EXCEPT !.pc = "send_link", !.stored = TRUE]
    /\ UNCHANGED <<hook, issued, requests, api, promo, session>>

\* PayStore storing an amount other than the one pay computed (line 524) and
\* sent to the gateway.
PayStoreOtherAmount ==
    /\ payp.pc = "init_new_payment"
    /\ \/ /\ Fault
          /\ payp' = [payp EXCEPT !.pc = "send_link"]
          /\ UNCHANGED orders
       \/ /\ NoFault
          /\ RowsByOrderId(orders, payp.OrderId) # {}
          /\ payp' = [payp EXCEPT !.pc = "done", !.outcome = "exception"]
          /\ UNCHANGED orders
       \/ /\ NoFault
          /\ RowsByOrderId(orders, payp.OrderId) = {}
          /\ \E amount \in Amounts \ {payp.amount} :
               orders' = orders \cup
                {[tg_id |-> payp.tg_id, order_id |-> payp.OrderId,
                  amount |-> amount, payment_id |-> payp.payment_id,
                  status |-> "new"]}
          /\ payp' = [payp EXCEPT !.pc = "send_link", !.stored = TRUE]
    /\ UNCHANGED <<hook, issued, requests, api, promo, session>>

\* init_new_payment (queries.py 79-114) as awaited by pay (line 554):
\* OperationalError is logged and swallowed; the primary key rejects a second
\* row with the same order_id (IntegrityError, not caught anywhere).
PayStore ==
    /\ payp.pc = "init_new_payment"
    /\ \/ /\ Fault
          /\ payp' = [payp EXCEPT !.pc = "send_link"]
          /\ UNCHANGED orders
       \/ /\ NoFault
          /\ RowsByOrderId(orders, payp.OrderId) # {}
          /\ payp' = [payp EXCEPT !.pc = "done", !.outcome = "exception"]
          /\ UNCHANGED orders
       \/ /\ NoFault
          /\ RowsByOrderId(orders, payp.OrderId) = {}
          /\ orders' = orders \cup
                {[tg_id |-> payp.tg_id, order_id |-> payp.OrderId,
                  amount |-> payp.amount, payment_id |-> payp.payment_id,
                  status |-> "new"]}
          /\ payp' = [payp EXCEPT !.pc = "send_link", !.stored = TRUE]
    /\ UNCHANGED <<hook, issued, requests, api, promo, session>>

\* bot.send_message with the payment link (line 563); Telegram may refuse.
PaySendLink ==
    /\ payp.pc = "send_link"
    /\ \/ /\ NoFault
          /\ payp' = [payp EXCEPT !.pc = "done", !.sent = "pay_link",
                                  !.outcome = "returned"]
       \/ /\ Fault
          /\ payp' = [payp EXCEPT !.pc = "done", !.outcome = "exception"]
    /\ UNCHANGED <<orders, hook, issued, requests, api, promo, session>>

\* ------------------------------------------------------- process_payment
Active(h) == hook[h].pc \notin {"idle", "done"}

\* The handler returns or raises; its locals go out of scope.
Finish(rec, outcome) ==
    [IdleHook EXCEPT !.pc = "done", !.outcome = outcome, !.sent = rec.sent,
                     !.changed = rec.changed]

\* Lines 587 and 628: the branch taken after get_user_tg_id.
Branch(data) ==
    IF data.Status = "CONFIRMED" /\ data.Success THEN "get_amount"
    ELSE IF data.Status = "REJECTED" THEN "update_select"
    ELSE "done"

Goto(rec, pc) == IF pc = "done" THEN Finish(rec, "OK") ELSE [rec EXCEPT !.pc = pc]

\* The status update_payment_data is called with (lines 618 and 632).
NewStatus(data) == IF data.Status = "REJECTED" THEN "canceled" ELSE "confirmed"

\* The text sent to the purchaser (lines 621 and 635).
Text(data) == IF data.Status = "REJECTED" THEN "failure" ELSE "success"

\* Lines 574-584: the body arrives, Amount, OrderId and PaymentId are
\* converted with int() (a missing field raises TypeError out of the
\* handler), and get_user_tg_id (queries.py 161-193) reads the store:
\* OperationalError gives None.
Receive(h, data) ==
    /\ hook[h].pc = "idle"
    /\ \A g \in Hooks : g < h => hook[g].pc # "idle"
    /\ requests < MaxRequests
    /\ requests' = requests + 1
    /\ LET new == [IdleHook EXCEPT !.data = data]
           r == get_user_tg_id(orders, data.PaymentId, data.Amount)
       IN  \/ /\ data.Amount = None
              /\ NoFault
              /\ hook' = [hook EXCEPT ![h] = Finish(new, "exception")]
           \/ /\ data.Amount # None
              /\ Fault
              /\ hook' = [hook EXCEPT ![h] = Goto(new, Branch(data))]
           \/ /\ data.Amount # None
              /\ NoFault
              /\ r.raise
              /\ hook' = [hook EXCEPT ![h] = Finish(new, "exception")]
           \/ /\ data.Amount # None
              /\ NoFault
              /\ ~r.raise
              /\ hook' = [hook EXCEPT ![h] =
                            Goto([new EXCEPT !.user_id = r.value], Branch(data))]
    /\ UNCHANGED <<orders, payp, issued, api, promo, session>>

HookReceive(h) == \E data \in Payloads \cup {MalformedPayload} : Receive(h, data)

\* Lines 588-591, queries.py 25-41: OperationalError gives None, which is
\* not equal to the notified amount; ValueError leaves the handler.
HookGetAmount(h) ==
    /\ hook[h].pc = "get_amount"
    /\ LET d == hook[h].data
           r == get_amount(orders, d.OrderId)
       IN  \/ /\ Fault
              /\ hook' = [hook EXCEPT ![h] = Finish(@, "OK")]
           \/ /\ NoFault
              /\ r.raise
              /\ hook' = [hook EXCEPT ![h] = Finish(@, "exception")]
           \/ /\ NoFault
              /\ ~r.raise
              /\ hook' = [hook EXCEPT ![h] =
                            IF r.value = d.Amount
                            THEN [@ EXCEPT !.pc = "get_payment_state"]
                            ELSE Finish(@, "OK")]
    /\ UNCHANGED <<orders, payp, issued, requests, api, promo, session>>

\* Lines 594-614: the GetState call and the comparison of its answer with
\* the store. send_request returns None on a connection error or a non-JSON
\* body (response.get then raises inside the try) or raises
\* TinkoffAPIException on Success false; otherwise the gateway's PaymentId
\* and Amount go to check_amount_and_payment_id (queries.py 117-158), where
\* OperationalError gives None. Every exception is logged and passed over,
\* and the result is only logged.
HookGetState(h) ==
    /\ hook[h].pc = "get_payment_state"
    /\ \/ /\ NoFault
          /\ hook' = [hook EXCEPT ![h] = [@ EXCEPT !.result = "transport",
                                                   !.pc = "update_select"]]
       \/ /\ NoFault
          /\ hook' = [hook EXCEPT ![h] = [@ EXCEPT !.result = "api_error",
                                                   !.pc = "update_select"]]
       \/ \E pid \in PaymentIds, amount \in Amounts :
            LET r == check_amount_and_payment_id(orders, pid, amount)
            IN  \/ /\ Fault
                   /\ hook' = [hook EXCEPT ![h] = [@ EXCEPT !.result = "None",
                                                            !.pc = "update_select"]]
                \/ /\ NoFault
                   /\ hook' = [hook EXCEPT ![h] =
                                 [@ EXCEPT !.result = IF r.raise THEN "raise"
                                                                 ELSE r.value,
                                           !.pc = "update_select"]]
    /\ UNCHANGED <<orders, payp, issued, requests, api, promo, session>>

\* update_payment_data, queries.py 57-64: the SELECT. OperationalError is
\* logged and the function returns; no row raises ValueError out of the
\* handler.
HookUpdateSelect(h) ==
    /\ hook[h].pc = "update_select"
    /\ LET rows == RowsByOrderId(orders, hook[h].data.OrderId)
       IN  \/ /\ Fault
              /\ hook' = [hook EXCEPT ![h] = [@ EXCEPT !.pc = "send_message"]]
           \/ /\ NoFault
              /\ rows = {}
              /\ hook' = [hook EXCEPT ![h] = Finish(@, "exception")]
           \/ /\ NoFault
              /\ rows # {}
              /\ hook' = [hook EXCEPT ![h] = [@ EXCEPT !.order = TheRow(rows),
                                                    !.pc = "update_commit"]]
    /\ UNCHANGED <<orders, payp, issued, requests, api, promo, session>>

\* update_payment_data, queries.py 66-73: the assignments and the commit.
HookUpdateCommit(h) ==
    /\ hook[h].pc = "update_commit"
    /\ LET d == hook[h].data
           S == CommitUpdate(orders, hook[h].order, NewStatus(d), d.PaymentId)
       IN  \/ /\ Fault
              /\ hook' = [hook EXCEPT ![h] = [@ EXCEPT !.pc = "send_message"]]
              /\ UNCHANGED orders
           \/ /\ NoFault
              /\ orders' = S
              /\ hook' = [hook EXCEPT ![h] =
                            [@ EXCEPT !.pc = "send_message",
                                      !.changed = StatusOf(S, d.OrderId)
                                                    # StatusOf(orders, d.OrderId)]]
    /\ UNCHANGED <<payp, issued, requests, api, promo, session>>

\* bot.send_message(user_id, ...), lines 621-626 and 635-639: a chat id of
\* None is rejected, and Telegram may refuse the message; both raise.
HookSend(h) ==
    /\ hook[h].pc = "send_message"
    /\ \/ /\ NoFault
          /\ hook[h].user_id = None
          /\ hook' = [hook EXCEPT ![h] = Finish(@, "exception")]
       \/ /\ Fault
          /\ hook[h].user_id # None
          /\ hook' = [hook EXCEPT ![h] = Finish(@, "exception")]
       \/ /\ NoFault
          /\ hook[h].user_id # None
          /\ hook' = [hook EXCEPT ![h] =
                        Finish([@ EXCEPT !.sent = Text(hook[h].data)], "OK")]
    /\ UNCHANGED <<orders, payp, issued, requests, api, promo, session>>

\* --------------------------------------------------------- specification
Next ==
    \/ PayStart
    \/ PayInit
    \/ PayStore
    \/ PaySendLink
    \/ \E h \in Hooks : HookReceive(h)
    \/ \E h \in Hooks : HookGetAmount(h)
    \/ \E h \in Hooks : HookGetState(h)
    \/ \E h \in Hooks : HookUpdateSelect(h)
    \/ \E h \in Hooks : HookUpdateCommit(h)
    \/ \E h \in Hooks : HookSend(h)

Spec == Init /\ [][Next]_vars

\* Webhooks handled one after the other: a webhook is taken only when no
\* other run of process_payment is in progress.
SeqReceive(h) == (\A g \in Hooks : ~Active(g)) /\ HookReceive(h)

SeqNext ==
    \/ PayStart
    \/ PayInit
    \/ PayStore
    \/ PaySendLink
    \/ \E h \in Hooks : SeqReceive(h)
    \/ \E h \in Hooks : HookGetAmount(h)
    \/ \E h \in Hooks : HookGetState(h)
    \/ \E h \in Hooks : HookUpdateSelect(h)
    \/ \E h \in Hooks : HookUpdateCommit(h)
    \/ \E h \in Hooks : HookSend(h)

SeqSpec == Init /\ [][SeqNext]_vars

\* The gateway delivers one CONFIRMED webhook several times, each delivery
\* arriving while the earlier ones are still being handled.
IsConfirmed(data) == data.Status = "CONFIRMED" /\ data.Success

DupReceive(h) ==
    \E data \in Payloads :
        /\ IsConfirmed(data)
        /\ \A g \in Hooks : g < h => Active(g) /\ hook[g].data = data
        /\ Receive(h, data)

DupNext ==
    \/ PayStart
    \/ PayInit
    \/ PayStore
    \/ PaySendLink
    \/ \E h \in Hooks : DupReceive(h)
    \/ \E h \in Hooks : HookGetAmount(h)
    \/ \E h \in Hooks : HookGetState(h)
    \/ \E h \in Hooks : HookUpdateSelect(h)
    \/ \E h \in Hooks : HookUpdateCommit(h)
    \/ \E h \in Hooks : HookSend(h)

DupSpec == Init /\ [][DupNext]_vars

\* Webhooks arriving after two orders have been placed: two runs of pay have
\* returned, each with its own OrderId and the PaymentId the gateway gave it;
\* payp is the later of the two runs. requests counts the webhooks taken
\* from here on, and the webhooks are handled one after the other.
PlacedInit ==
    /\ \E a, b \in Order :
         /\ a.order_id # b.order_id
         /\ a.payment_id # None
         /\ b.payment_id # None
         /\ a.payment_id # b.payment_id
         /\ a.status = "new"
         /\ b.status = "new"
         /\ orders = {a, b}
         /\ issued = {a.payment_id, b.payment_id}
         /\ payp = [pc |-> "done", tg_id |-> b.tg_id, amount |-> b.amount,
                    OrderId |-> b.order_id, init |-> "ok",
                    payment_id |-> b.payment_id, stored |-> TRUE,
                    sent |-> "pay_link", outcome |-> "returned"]
    /\ hook = [h \in Hooks |-> IdleHook]
    /\ requests = 0
    /\ faults = 0
    /\ api = NoClient
    /\ promo = NoPromo
    /\ session = NoSession

PlacedNext ==
    \/ \E h \in Hooks : SeqReceive(h)
    \/ \E h \in Hooks : HookGetAmount(h)
    \/ \E h \in Hooks : HookGetState(h)
    \/ \E h \in Hooks : HookUpdateSelect(h)
    \/ \E h \in Hooks : HookUpdateCommit(h)
    \/ \E h \in Hooks : HookSend(h)

PlacedSpec == PlacedInit /\ [][PlacedNext]_vars

\* ------------------------------------------------------ the gateway client
\* A client has been constructed with its terminal key and secret
\* (__init__, lines 48-52); nothing else has run.
ClientInit ==
    /\ orders = {}
    /\ hook = [h \in Hooks |-> IdleHook]
    /\ payp = IdlePay
    /\ issued = {}
    /\ requests = 0
    /\ faults = 0
    /\ promo = NoPromo
    /\ session = NoSession
    /\ \E s \in Values, t \in Values :
         api = [NoClient EXCEPT !.secret = s, !.terminal_key = t]

\* generate_token(params) called on a dict of the caller.
GenerateToken(params) ==
    /\ api.pc = "idle"
    /\ api' = [api EXCEPT !.pc = "signed", !.params = params,
                          !.token = generate_token(params, api.secret),
                          !.after = params_after_generate_token(params, api.secret)]
    /\ UNCHANGED <<orders, hook, payp, issued, requests, faults, promo, session>>

\* SendRequest with lines 60 and 61 exchanged: the token is computed before
\* TerminalKey is put into the payload.
SendRequestTokenFirst(endpoint, payload) ==
    /\ api.pc = "idle"
    /\ LET token == generate_token(payload, api.secret)
           p1 == params_after_generate_token(payload, api.secret)
           p2 == [p1 EXCEPT !["TerminalKey"] = api.terminal_key]
           p3 == [p2 EXCEPT !["Token"] = token]
       IN  api' = [api EXCEPT !.pc = "posted", !.endpoint = endpoint,
                              !.params = payload, !.token = token,
                              !.after = p3, !.posted = p3]
    /\ UNCHANGED <<orders, hook, payp, issued, requests, faults, promo, session>>

\* send_request up to the POST (lines 55-69): TerminalKey is put into the
\* payload, generate_token runs on it (and leaves Password in it), Token is
\* put into it, and the dict is posted as the JSON body.
SendRequest(endpoint, payload) ==
    /\ api.pc = "idle"
    /\ LET p1 == [payload EXCEPT !["TerminalKey"] = api.terminal_key]
           token == generate_token(p1, api.secret)
           p2 == params_after_generate_token(p1, api.secret)
           p3 == [p2 EXCEPT !["Token"] = token]
       IN  api' = [api EXCEPT !.pc = "posted", !.endpoint = endpoint,
                              !.params = payload, !.token = token,
                              !.after = p3, !.posted = p3]
    /\ UNCHANGED <<orders, hook, payp, issued, requests, faults, promo, session>>

\* send_request from the POST on (lines 64-96).
Respond ==
    /\ api.pc = "posted"
    /\ \E event \in Events :
         api' = [api EXCEPT !.pc = "returned", !.event = event,
                            !.outcome = send_request_outcome(event)]
    /\ UNCHANGED <<orders, hook, payp, issued, requests, faults, promo, session>>

ClientNext ==
    \/ \E params \in ParamSets : GenerateToken(params)
    \/ \E payload \in InitPayloads : SendRequest("Init", payload)
    \/ \E payload \in GetStatePayloads : SendRequest("GetState", payload)
    \/ \E payload \in GetStatePayloads : SendRequest("Confirm", payload)
    \/ \E payload \in GetStatePayloads : SendRequest("Cancel", payload)
    \/ Respond

ClientSpec == ClientInit /\ [][ClientNext]_vars

\* ------------------------------------------------------------- promo codes
\* promocodes.json holds some codes for each conference.
PromoInit ==
    /\ orders = {}
    /\ hook = [h \in Hooks |-> IdleHook]
    /\ payp = IdlePay
    /\ issued = {}
    /\ requests = 0
    /\ faults = 0
    /\ api = NoClient
    /\ session = NoSession
    /\ \E f \in [Confs -> Lists] :
         promo = [NoPromo EXCEPT !.file = f, !.listed = f]

\* promocode, lines 472-478: a text message arrives from a user who has
\* opened the promo dialog for conference num_conf; state.get_data() is
\* awaited.
PromoReceive(m) ==
    /\ promo.msg[m].pc = "idle"
    /\ \A k \in Messages : k < m => promo.msg[k].pc # "idle"
    /\ \E n \in Confs, text \in Codes :
         promo' = [promo EXCEPT !.msg[m] = [IdleMessage EXCEPT !.pc = "check",
                                                              !.num_conf = n,
                                                              !.text = text]]
    /\ UNCHANGED <<orders, hook, payp, issued, requests, faults, api, session>>

\* PromoCheck without lines 491-493: the code is accepted, and is neither
\* removed from the list nor written back.
PromoCheckNoWrite(m) ==
    /\ promo.msg[m].pc = "check"
    /\ LET n == promo.msg[m].num_conf
           text == promo.msg[m].text
       IN  promo' = [promo EXCEPT !.msg[m].pc = "done",
                                  !.msg[m].result =
                                      IF In(text, promo.file[n]) THEN "accepted"
                                                                 ELSE "rejected"]
    /\ UNCHANGED <<orders, hook, payp, issued, requests, faults, api, session>>

\* promocode, lines 488-507: the file is read, the code looked up, removed
\* and the file written back, with no await in between; then the caption is
\* edited.
PromoCheck(m) ==
    /\ promo.msg[m].pc = "check"
    /\ LET n == promo.msg[m].num_conf
           text == promo.msg[m].text
       IN  IF In(text, promo.file[n])
           THEN promo' = [promo EXCEPT !.file[n] = Remove(@, text),
                                       !.msg[m].pc = "done",
                                       !.msg[m].result = "accepted"]
           ELSE promo' = [promo EXCEPT !.msg[m].pc = "done",
                                       !.msg[m].result = "rejected"]
    /\ UNCHANGED <<orders, hook, payp, issued, requests, faults, api, session>>

PromoNext ==
    \/ \E m \in Messages : PromoReceive(m)
    \/ \E m \in Messages : PromoCheck(m)

PromoSpec == PromoInit /\ [][PromoNext]_vars

\* ---------------------------------------------------------------- the cart
\* One user's session after /start, with some catalog in config.py. The
\* handlers of one user run one after the other.
CartInit ==
    /\ orders = {}
    /\ hook = [h \in Hooks |-> IdleHook]
    /\ payp = IdlePay
    /\ issued = {}
    /\ requests = 0
    /\ faults = 0
    /\ api = NoClient
    /\ promo = NoPromo
    /\ \E confs \in CartCatalogs : session = [NoSession EXCEPT !.confs = confs]

\* What a handler that calls summation leaves in the session.
Summed(ses, basket_list) ==
    LET r == summation(basket_list, ses.confs)
    IN  [ses EXCEPT !.basket_list = basket_list, !.basket_sum = r.order[1],
                    !.shipping_address = r.shipping_address,
                    !.order = r.order]

\* start (lines 161-176), also reached through restart (lines 710-714).
Start ==
    /\ session' = [session EXCEPT !.basket_list = NoBasket, !.basket_sum = None,
                                  !.num_conf = None, !.promo_message = FALSE,
                                  !.order = <<>>]
    /\ UNCHANGED <<orders, hook, payp, issued, requests, faults, api, promo>>

\* display_conferences (lines 186-226).
DisplayConferences ==
    /\ session' = [session EXCEPT !.num_conf = None, !.promo_message = FALSE,
                                  !.order = <<>>]
    /\ UNCHANGED <<orders, hook, payp, issued, requests, faults, api, promo>>

\* select_conference (lines 230-271).
SelectConference(num_conf) ==
    /\ session' = [session EXCEPT !.num_conf = num_conf, !.order = <<>>]
    /\ UNCHANGED <<orders, hook, payp, issued, requests, faults, api, promo>>

\* selected_lectures (lines 314-343) with create_basket_message (lines
\* 346-361): the lecture, or every lecture of the conference, goes into the
\* basket, summation runs, and display_conferences follows when no lecture
\* message is left or all were taken.
SelectedLectures(num_lect) ==
    /\ session.num_conf # None
    /\ LET num_conf == session.num_conf
           lectures == session.confs[num_conf].lectures
           basket == IF session.basket_list = NoBasket THEN {}
                     ELSE session.basket_list
           all == {<<num_conf, l>> : l \in DOMAIN lectures}
           added == IF num_lect = AllLectures
                    THEN {x \in basket : x[1] # num_conf} \cup all
                    ELSE basket \cup {<<num_conf, num_lect>>}
       IN  /\ num_lect = AllLectures \/ num_lect \in DOMAIN lectures
           /\ \E back \in BOOLEAN :
                /\ num_lect = AllLectures => back
                /\ session' = [Summed(session, added) EXCEPT
                                  !.num_conf = IF back THEN None ELSE @,
                                  !.promo_message = IF back THEN FALSE ELSE @]
    /\ UNCHANGED <<orders, hook, payp, issued, requests, faults, api, promo>>

\* basket, 'basket_<num_conf>_<num_lect>' (lines 435-448): the item is
\* removed, and the conference with it when it was its only item.
BasketRemove(num_conf, num_lect) ==
    /\ session.basket_list # NoBasket
    /\ num_conf \in BasketConfs(session.basket_list)
    /\ LET b_conf == BasketLects(session.basket_list, num_conf)
           left == IF Cardinality(b_conf) > 1
                   THEN session.basket_list \ {<<num_conf, num_lect>>}
                   ELSE {x \in session.basket_list : x[1] # num_conf}
       IN  /\ Cardinality(b_conf) > 1 => num_lect \in b_conf
           /\ session' = IF left = {}
                         THEN [session EXCEPT !.basket_list = left,
                                              !.basket_sum = 0,
                                              !.num_conf = None,
                                              !.promo_message = FALSE,
                                              !.order = <<>>]
                         ELSE Summed(session, left)
    /\ UNCHANGED <<orders, hook, payp, issued, requests, faults, api, promo>>

\* basket, 'basket_clear' (lines 430-433).
BasketClear ==
    /\ session' = [session EXCEPT !.basket_list = NoBasket, !.basket_sum = 0,
                                  !.num_conf = None, !.promo_message = FALSE,
                                  !.order = <<>>]
    /\ UNCHANGED <<orders, hook, payp, issued, requests, faults, api, promo>>

\* select_promocode (lines 451-468).
SelectPromocode ==
    /\ session' = [session EXCEPT !.basket_list = NoBasket,
                                  !.promo_message = TRUE, !.order = <<>>]
    /\ UNCHANGED <<orders, hook, payp, issued, requests, faults, api, promo>>

\* promocode with a listed code (lines 485-511) and issuing_order (lines
\* 669-698): the lectures of the conference are issued and the cart is reset.
PromoAccepted ==
    /\ session.promo_message
    /\ session.num_conf # None
    /\ session' = [session EXCEPT !.basket_list = NoBasket, !.basket_sum = None,
                                  !.promo_message = FALSE, !.order = <<>>]
    /\ UNCHANGED <<orders, hook, payp, issued, requests, faults, api, promo>>

\* pay, lines 516-545, reading the session: int(None * 100) raises when
\* basket_sum is None.
CartPay ==
    /\ session.basket_sum # None
    /\ \E oid \in OrderIds :
         payp' = [IdlePay EXCEPT !.pc = "init", !.tg_id = session.tg_id,
                                 !.amount = session.basket_sum * 100,
                                 !.OrderId = oid]
    /\ session' = [session EXCEPT !.order = <<>>]
    /\ UNCHANGED <<orders, hook, issued, requests, faults, api, promo>>

CartNext ==
    \/ Start
    \/ DisplayConferences
    \/ \E num_conf \in CartConfs : SelectConference(num_conf)
    \/ \E num_lect \in Lects \cup {AllLectures} : SelectedLectures(num_lect)
    \/ \E num_conf \in CartConfs, num_lect \in Lects : BasketRemove(num_conf, num_lect)
    \/ BasketClear
    \/ SelectPromocode
    \/ PromoAccepted
    \/ CartPay

CartSpec == CartInit /\ [][CartNext]_vars

\* summation on its own: a session with some catalog and some basket_list of
\* lectures of that catalog, the empty basket included.
SumInit ==
    /\ orders = {}
    /\ hook = [h \in Hooks |-> IdleHook]
    /\ payp = IdlePay
    /\ issued = {}
    /\ requests = 0
    /\ faults = 0
    /\ api = NoClient
    /\ promo = NoPromo
    /\ \E confs \in Catalogs :
         \E basket_list \in SUBSET {<<n, l>> : n \in CartConfs, l \in Lects} :
           /\ \A x \in basket_list : x[2] \in DOMAIN confs[x[1]].lectures
           /\ session = [NoSession EXCEPT !.confs = confs,
                                          !.basket_list = basket_list]

\* summation (lines 376-395) is called on the basket_list of the session.
Summation ==
    /\ session.order = <<>>
    /\ session' = Summed(session, session.basket_list)
    /\ UNCHANGED <<orders, hook, payp, issued, requests, faults, api, promo>>

SumNext == Summation

SumSpec == SumInit /\ [][SumNext]_vars

\* ------------------------------------------------------------------ claims
Terminal == {"confirmed", "canceled"}

\* h takes a step of a webhook it has already received.
StepOf(h) == Active(h) /\ hook'[h] # hook[h]

\* h's handler ends in this step, with the 200 response.
ReturnsOK(h) == Active(h) /\ hook'[h].pc = "done" /\ hook'[h].outcome = "OK"

\* No failure of the store or of Telegram has happened up to and including
\* this step.
NoFaultYet == faults' = 0

\* C1: once the status of an order is confirmed or canceled, no step of any
\* handler changes it again, also when no store or Telegram failure occurs.
C1_TerminalStatusIsFinal ==
    [][\A r \in orders :
          (NoFaultYet /\ r.status \in Terminal)
          => StatusOf(orders', r.order_id) = r.status]_vars

\* C2: when one CONFIRMED webhook is delivered several times and the
\* deliveries are handled concurrently, at most one of the handlers sends the
\* success notification and at most one changes the status of the order,
\* also when no store or Telegram failure occurs.
C2_FulfilledOnce ==
    faults = 0 =>
    /\ Cardinality({h \in Hooks : hook[h].sent = "success"}) <= 1
    /\ Cardinality({h \in Hooks : hook[h].changed}) <= 1

\* C3: with webhooks handled one after the other, a CONFIRMED webhook for an
\* order that update_payment_data finds confirmed leaves it confirmed and
\* sends no success notification, also when no store or Telegram failure
\* occurs.
C3_ReplayIsSilent ==
    [][\A h \in Hooks :
          (/\ StepOf(h)
           /\ NoFaultYet
           /\ IsConfirmed(hook[h].data)
           /\ hook[h].order.status = "confirmed")
          => /\ StatusOf(orders', hook[h].data.OrderId) = "confirmed"
             /\ hook'[h].sent # "success"]_vars

\* C4: no step of a webhook whose Amount differs from the stored amount of
\* the order it names makes that order confirmed, and it leaves a new order
\* new, also when no store or Telegram failure occurs.
C4_AmountMismatchKeepsStatus ==
    [][\A h \in Hooks : \A r \in orders :
          (/\ StepOf(h)
           /\ NoFaultYet
           /\ r.order_id = hook[h].data.OrderId
           /\ r.amount # hook[h].data.Amount)
          => /\ StatusOf(orders', r.order_id) = "confirmed" => r.status = "confirmed"
             /\ r.status = "new" => StatusOf(orders', r.order_id) = "new"]_vars

\* C5: once check_amount_and_payment_id has reported no match for the
\* GetState answer, the handler neither changes the status of the order nor
\* sends the success notification, also when no store or Telegram failure
\* occurs.
C5_NoMatchNoConfirmation ==
    [][\A h \in Hooks :
          (StepOf(h) /\ NoFaultYet /\ hook[h].result = "False")
          => /\ StatusOf(orders', hook[h].data.OrderId)
                  = StatusOf(orders, hook[h].data.OrderId)
             /\ hook'[h].sent # "success"]_vars

\* C6: a step of a webhook whose (PaymentId, Amount) pair matches no stored
\* order leaves the store as it is, also when no store or Telegram failure
\* occurs.
C6_UnmatchedWebhookChangesNothing ==
    [][\A h \in Hooks :
          (/\ StepOf(h)
           /\ NoFaultYet
           /\ RowsByPaymentAndAmount(orders, hook[h].data.PaymentId,
                                      hook[h].data.Amount) = {})
          => orders' = orders]_vars

InitFailed(p) == p.init \in {"None", "exception", "no_url"}

\* C7: when the Init call of pay fails (no response, an exception, or a
\* response without PaymentURL), pay ends there and no step of it changes the
\* store.
C7_InitFailureStoresNothing ==
    /\ [](InitFailed(payp) => payp.pc = "done" /\ ~payp.stored)
    /\ [][(payp' # payp /\ InitFailed(payp')) => orders' = orders]_vars

\* C7 witness: pay has ended on a failed Init call while an earlier order is
\* in the store.
C7_Witness ==
    /\ payp.pc = "done"
    /\ payp.init = "None"
    /\ orders # {}

\* C8: when pay returns after a successful Init call, the store holds exactly
\* one order with pay's OrderId, and it has pay's amount, the PaymentId of the
\* Init response and status new, and the payment link has been sent.
C8_PayStoresTheOrder ==
    [][(/\ payp.pc # "done"
        /\ payp'.pc = "done"
        /\ payp'.init = "ok"
        /\ payp'.outcome = "returned")
       => /\ payp'.sent = "pay_link"
          /\ RowsByOrderId(orders', payp.OrderId)
                = {[tg_id |-> payp.tg_id, order_id |-> payp.OrderId,
                    amount |-> payp.amount, payment_id |-> payp.payment_id,
                    status |-> "new"]}]_vars

\* C9: when the handler of a CONFIRMED webhook returns, having found the
\* order new with the notified amount and the GetState answer matching the
\* store, the order is confirmed and the success notification has been sent.
C9_ConfirmedWebhookConfirms ==
    [][\A h \in Hooks :
          (/\ ReturnsOK(h)
           /\ IsConfirmed(hook[h].data)
           /\ hook[h].result = "True"
           /\ hook[h].order.status = "new")
          => /\ StatusOf(orders', hook[h].data.OrderId) = "confirmed"
             /\ hook'[h].sent = "success"]_vars

\* C10: when the handler of a REJECTED webhook ends, having found the order
\* it names new and carrying that order's PaymentId and amount, the order is
\* canceled, the failure notification has been sent, and no GetState query
\* was made.
C10_RejectedWebhookCancels ==
    [][\A h \in Hooks :
          (/\ Active(h)
           /\ hook'[h].pc = "done"
           /\ hook[h].data.Status = "REJECTED"
           /\ hook[h].order.status = "new"
           /\ hook[h].order.payment_id = hook[h].data.PaymentId
           /\ hook[h].order.amount = hook[h].data.Amount)
          => /\ StatusOf(orders', hook[h].data.OrderId) = "canceled"
             /\ hook'[h].sent = "failure"
             /\ hook[h].result = "unset"]_vars

\* A webhook that takes neither branch of process_payment.
OtherStatus(data) == ~IsConfirmed(data) /\ data.Status # "REJECTED"

\* C11: the handler of a webhook whose Status is neither CONFIRMED with
\* Success true nor REJECTED leaves the store unchanged, sends nothing to the
\* purchaser and returns the 200 response, also when no store or Telegram
\* failure occurs.
C11_OtherStatusIsAcknowledged ==
    [][\A h \in Hooks : \A data \in Payloads :
          (OtherStatus(data) /\ NoFaultYet /\ Receive(h, data))
          => /\ orders' = orders
             /\ hook'[h].sent = "none"
             /\ hook'[h].outcome = "OK"]_vars

\* C12: every run of process_payment on a parseable webhook ends with the
\* 200 response, also when no store or Telegram failure occurs.
C12_AlwaysAcknowledged ==
    [][\A h \in Hooks :
          (/\ NoFaultYet
           /\ hook'[h].pc = "done"
           /\ Active(h) \/ \E data \in Payloads : Receive(h, data))
          => hook'[h].outcome = "OK"]_vars

\* C13: a webhook body with a missing Amount is answered with a 400 response
\* (not with the 500 of an exception leaving the handler) and changes no
\* order.
C13_MalformedIsRejected ==
    [][\A h \in Hooks :
          Receive(h, MalformedPayload)
          => /\ orders' = orders
             /\ hook'[h].outcome = "bad_request"]_vars

\* C14: no step changes the payment_id of an order that is in the store,
\* also when no store or Telegram failure occurs.
C14_PaymentIdIsImmutable ==
    [][NoFaultYet =>
          \A r \in orders : \A q \in RowsByOrderId(orders', r.order_id) :
              q.payment_id = r.payment_id]_vars

\* C15: no two distinct orders of the store have the same non-null
\* payment_id, also when no store or Telegram failure occurs.
C15_PaymentIdIsUnique ==
    faults = 0 =>
    \A a, b \in orders :
        (a # b /\ a.payment_id # None) => a.payment_id # b.payment_id

\* C16: the store holds at most one order per order_id, and the step of
\* init_new_payment for an order_id that is already in the store leaves the
\* store as it is.
C16_OneOrderPerOrderId ==
    /\ [](\A id \in OrderIds : Cardinality(RowsByOrderId(orders, id)) <= 1)
    /\ [][(/\ payp' # payp
           /\ payp.pc = "init_new_payment"
           /\ RowsByOrderId(orders, payp.OrderId) # {})
          => orders' = orders]_vars

\* C16 witness: pay has ended in init_new_payment, without a store failure,
\* because its OrderId was already in the store.
C16_Witness ==
    /\ faults = 0
    /\ payp.pc = "done"
    /\ payp.init = "ok"
    /\ payp.outcome = "exception"
    /\ RowsByOrderId(orders, payp.OrderId) # {}

\* C17: the OrderId that pay draws is not the order_id of an order in the
\* store.
C17_OrderIdIsFresh ==
    [][(payp.pc # "init" /\ payp'.pc = "init")
       => RowsByOrderId(orders, payp'.OrderId) = {}]_vars

\* C18: an order that is in the store is in the store after every step.
C18_OrdersAreNeverDeleted ==
    [][\A r \in orders : RowsByOrderId(orders', r.order_id) # {}]_vars

\* C18 witness: a webhook has canceled an order and two orders are in the
\* store.
C18_Witness ==
    /\ Cardinality(orders) = 2
    /\ \E r \in orders : r.status = "canceled"

\* C19: no step changes the amount of an order that is in the store, and an
\* order enters the store only in init_new_payment of pay, with the amount pay
\* passed to the Init call.
C19_AmountIsTheInitAmount ==
    [][/\ \A r \in orders : \A q \in RowsByOrderId(orders', r.order_id) :
              q.amount = r.amount
       /\ \A q \in orders' :
              RowsByOrderId(orders, q.order_id) = {}
              => /\ payp.pc = "init_new_payment"
                 /\ payp.init = "ok"
                 /\ q.order_id = payp.OrderId
                 /\ q.amount = payp.amount]_vars

\* C19 witness: a webhook carrying another Amount than the stored one has
\* updated the order.
C19_Witness ==
    \E h \in Hooks :
        /\ hook[h].pc = "send_message"
        /\ hook[h].changed
        /\ hook[h].data.Amount # hook[h].order.amount

\* C20: when a handler that has changed the status of an order notifies a
\* purchaser, the chat it writes to is the tg_id of that order, also when no
\* store or Telegram failure occurs.
C20_NotifiedPurchaserOwnsTheOrder ==
    [][\A h \in Hooks :
          (/\ Active(h)
           /\ NoFaultYet
           /\ hook[h].changed
           /\ hook'[h].sent # "none")
          => hook[h].user_id = hook[h].order.tg_id]_vars

\* C21: no step of a handler whose GetState call has failed in transport
\* (send_request returned None) makes the order confirmed, also when no store
\* or Telegram failure occurs.
C21_FailedVerificationDoesNotConfirm ==
    [][\A h \in Hooks :
          (StepOf(h) /\ NoFaultYet /\ hook[h].result = "transport")
          => (StatusOf(orders', hook[h].data.OrderId) = "confirmed"
              => StatusOf(orders, hook[h].data.OrderId) = "confirmed")]_vars

\* The four kinds of outcome the caller of send_request has to tell apart.
Kind(event) ==
    CASE event \in {"ConnectError", "ConnectTimeout", "ReadTimeout"} -> "transport"
      [] event = "JSONDecodeError" -> "malformed response"
      [] event = "Failure" -> "application failure"
      [] OTHER -> "success"

\* C22: what send_request gives its caller differs from what it gives for
\* every event of another kind (transport failure, non-JSON response,
\* application failure, success).
C22_OutcomesAreDistinguishable ==
    api.pc = "returned"
    => \A event \in Events :
          Kind(event) # Kind(api.event)
          => send_request_outcome(event) # api.outcome

\* C23: when pay has ended on a failed Init call (no response, an exception,
\* or a response without PaymentURL), the purchaser has been shown the
\* payment-failed message.
C23_InitFailureIsReported ==
    (payp.pc = "done" /\ InitFailed(payp)) => payp.sent = "pay_error"

\* C24: pay sends the payment link only after init_new_payment has stored the
\* order.
C24_LinkOnlyForStoredOrder ==
    [][(payp.sent # "pay_link" /\ payp'.sent = "pay_link") => payp.stored]_vars

\* The keys the token is meant not to depend on.
Unsigned == ignore_keys \cup {"Token"}

\* params with the values of the keys in K replaced by those of f.
With(params, K, f) == [k \in Keys |-> IF k \in K THEN f[k] ELSE params[k]]

\* C25: the token of a dict is the token of every dict with the same values
\* under the signed keys, and differs from the token of every dict obtained
\* by changing the value of one signed key.
C25_TokenIsDeterministicAndSensitive ==
    api.pc = "signed"
    => /\ \A f \in [Unsigned -> Values \cup {Absent}] :
             generate_token(With(api.params, Unsigned, f), api.secret) = api.token
       /\ \A k \in Keys \ Unsigned : \A v \in Values :
             api.params[k] \notin {Absent, v}
             => generate_token([api.params EXCEPT ![k] = v], api.secret)
                    # api.token

\* The keys named as excluded from signing: the itemized receipt, the
\* shop-split data and the signature field.
Excluded == {"Receipt", "Shops", "Token"}

\* C26: the token of a dict is the token of every dict that differs from it
\* only in the presence or value of Receipt, Shops and Token.
C26_TokenIgnoresExcludedKeys ==
    api.pc = "signed"
    => \A f \in [Excluded -> Values \cup {Absent}] :
          generate_token(With(api.params, Excluded, f), api.secret) = api.token

\* C27: generate_token leaves a dict without Password without Password, and
\* the payload send_request posts has no Password.
C27_SecretStaysInTheSigningCopy ==
    /\ (api.pc = "signed" /\ api.params["Password"] = Absent)
       => api.after["Password"] = Absent
    /\ api.pc \in {"posted", "returned"} => api.posted["Password"] = Absent

\* C28: the payload send_request posts carries the client's TerminalKey, and
\* its Token is the token of the posted parameters other than Token.
C28_TokenCoversTerminalKey ==
    api.pc \in {"posted", "returned"}
    => /\ api.posted["TerminalKey"] = api.terminal_key
       /\ api.posted["Token"]
            = generate_token([api.posted EXCEPT !["Token"] = Absent], api.secret)

\* C28 witness: an Init request with a receipt has been posted and answered.
C28_Witness ==
    /\ api.pc = "returned"
    /\ api.endpoint = "Init"
    /\ api.posted["Receipt"] # Absent
    /\ api.outcome = "response_data"

\* The runs of promocode that accepted code c for conference n.
Accepted(n, c) ==
    {m \in Messages : /\ promo.msg[m].result = "accepted"
                      /\ promo.msg[m].num_conf = n
                      /\ promo.msg[m].text = c}

Count(list, x) == Cardinality({i \in DOMAIN list : list[i] = x})

\* C29: a code that promocodes.json listed once for a conference is accepted
\* by at most one run of promocode, and is no longer in the file once it has
\* been accepted.
C29_PromoCodeIsConsumedOnce ==
    \A n \in Confs : \A c \in Codes :
        Count(promo.listed[n], c) = 1
        => /\ Cardinality(Accepted(n, c)) <= 1
           /\ Accepted(n, c) # {} => ~In(c, promo.file[n])

\* C29 witness: two messages carried the same listed-once code for the same
\* conference; one was accepted and the other rejected.
C29_Witness ==
    \E n \in Confs : \E c \in Codes :
        /\ Count(promo.listed[n], c) = 1
        /\ Accepted(n, c) # {}
        /\ \E m \in Messages : /\ promo.msg[m].result = "rejected"
                               /\ promo.msg[m].num_conf = n
                               /\ promo.msg[m].text = c

\* C30: when a handler sends the success notification, the order its webhook
\* names is confirmed in the store.
C30_SuccessMeansConfirmed ==
    [][\A h \in Hooks :
          (Active(h) /\ hook'[h].sent = "success")
          => StatusOf(orders', hook[h].data.OrderId) = "confirmed"]_vars

\* C31: a step of the handler of a webhook with OrderId o leaves every order
\* other than o as it is, and leaves the amount and the tg_id of order o as
\* they are.
C31_WebhookTouchesOnlyItsOrder ==
    [][\A h \in Hooks :
          StepOf(h)
          => \A r \in orders :
                /\ r.order_id # hook[h].data.OrderId => r \in orders'
                /\ \E q \in orders' : /\ q.order_id = r.order_id
                                      /\ q.amount = r.amount
                                      /\ q.tg_id = r.tg_id]_vars

\* C31 witness: a handler has changed the status of its order while another
\* order was in the store.
C31_Witness ==
    \E h \in Hooks :
        /\ hook[h].changed
        /\ \E r \in orders : r.order_id = hook[h].data.OrderId
        /\ \E r \in orders : r.order_id # hook[h].data.OrderId

\* C32: when a webhook arrives that carries the OrderId, the PaymentId and
\* the amount of a payment for which pay got a PaymentURL from Init and sent
\* the link, the order is in the store.
C32_WebhookFindsTheOrder ==
    [][\A h \in Hooks : \A data \in Payloads :
          (/\ Receive(h, data)
           /\ payp.init = "ok"
           /\ payp.sent = "pay_link"
           /\ data.OrderId = payp.OrderId
           /\ data.PaymentId = payp.payment_id
           /\ data.Amount = payp.amount)
          => RowsByOrderId(orders, data.OrderId) # {}]_vars

\* The price of the lectures 1..k of a conference that are in the set taken.
RECURSIVE LectTotal(_, _, _)
LectTotal(lectures, taken, k) ==
    IF k = 0 THEN 0
    ELSE (IF k \in taken THEN lectures[k] ELSE 0)
         + LectTotal(lectures, taken, k - 1)

\* What conference n adds to the total of a basket: nothing when it is not in
\* the basket, its conference price when every one of its lectures is, and
\* otherwise the prices of its lectures that are.
ConfTotal(basket_list, confs, n) ==
    LET taken == BasketLects(basket_list, n)
    IN  IF taken = {} THEN 0
        ELSE IF taken = DOMAIN confs[n].lectures THEN confs[n].price
        ELSE LectTotal(confs[n].lectures, taken, Len(confs[n].lectures))

RECURSIVE TotalUpTo(_, _, _)
TotalUpTo(basket_list, confs, n) ==
    ConfTotal(basket_list, confs, n)
    + (IF n = 0 THEN 0 ELSE TotalUpTo(basket_list, confs, n - 1))

\* The cart total of a basket; no basket at all totals to nothing.
CartTotal(basket_list, confs) ==
    IF basket_list = NoBasket THEN 0
    ELSE TotalUpTo(basket_list, confs, MaxCartConf)

\* C33: what summation returns and writes for a basket is the cart total
\* (per conference of the basket the conference price when all its lectures
\* are in the basket, else the sum of the prices of its lectures in the
\* basket), the number of lectures in the basket, and a shipping flag that is
\* true exactly when conference 0, the merchandise, is in the basket.
C33_SummationTotals ==
    session.order # <<>>
    => /\ session.order[1] = CartTotal(session.basket_list, session.confs)
       /\ session.basket_sum = session.order[1]
       /\ session.order[2] = Cardinality(session.basket_list)
       /\ session.shipping_address = (0 \in BasketConfs(session.basket_list))

\* C33 witness: summation ran on a basket that holds every lecture of a
\* conference whose price differs from the sum of its lectures' prices, and
\* two of the three lectures of the merchandise conference.
C33_Witness ==
    /\ session.order # <<>>
    /\ \E n \in CartConfs \ {0} :
         /\ BasketLects(session.basket_list, n) = DOMAIN session.confs[n].lectures
         /\ Len(session.confs[n].lectures) >= 2
         /\ session.confs[n].price
              # LectTotal(session.confs[n].lectures,
                          DOMAIN session.confs[n].lectures,
                          Len(session.confs[n].lectures))
    /\ Cardinality(BasketLects(session.basket_list, 0)) = 2
    /\ Len(session.confs[0].lectures) = 3

\* C34: the amount pay sends to Init is 100 times the cart total of the
\* basket_list the session holds when pay runs.
C34_PayAmountIsTheCartTotal ==
    [][CartPay
       => payp'.amount
            = 100 * CartTotal(session.basket_list, session.confs)]_vars

====
